---- MODULE Spec2Model ----
(***************************************************************************)
(* Model of the bibtex clean-up script (parse_bib_file, save_to_excel,     *)
(* print_entry_info / generate_bibtex, save_all_updates, main).            *)
(*                                                                         *)
(* Python strings are sequences of one-character strings.  A character     *)
(* outside ASCII is the atom "Uxxxx" of its code point.  A bibtex entry    *)
(* (a Python dict) is a function from the keys it holds to strings.        *)
(***************************************************************************)
EXTENDS Integers, Sequences, FiniteSets, TLC

VARIABLES
    entry, call, ret, evalpc, \* one call of print_entry_info: its argument,
                             \* the call of generate_bibtex it makes, its result
    bibref,                  \* the input file bib.ref
    xlsx,                    \* the file bibtex_records.xlsx
    bibout,                  \* the file updated_references.bib
    stdout,                  \* what main and parse_bib_file have printed
    entries, i, pc,          \* main: parsed entries, loop position, step
    runs,                    \* number of the current run of main
    atStart, atEnd           \* both files at the start of this run / at the
                             \* end of the previous run

evalvars == <<entry, call, ret, evalpc>>
mainvars == <<bibref, xlsx, bibout, stdout, entries, i, pc, runs, atStart, atEnd>>
vars == <<entry, call, ret, evalpc, bibref, xlsx, bibout, stdout, entries, i, pc,
          runs, atStart, atEnd>>

\* ---------------------------------------------------------------------------
\* Bounds
MaxEntries == 2
MaxRuns == 2

\* ---------------------------------------------------------------------------
\* String literals
\* type tags that print_entry_info compares against and writes
article == <<"a", "r", "t", "i", "c", "l", "e">>
inproceedings == <<"i", "n", "p", "r", "o", "c", "e", "e", "d", "i", "n", "g", "s">>
misc == <<"m", "i", "s", "c">>
www == <<"w", "w", "w">>
book == <<"b", "o", "o", "k">>
techreport == <<"t", "e", "c", "h", "r", "e", "p", "o", "r", "t">>
\* literals of the source
arxiv == <<"a", "r", "x", "i", "v">>
null == <<"n", "u", "l", "l">>
unnamed == <<"u", "n", "n", "a", "m", "e", "d">>
ArxivLiteral == <<"a", "r", "X", "i", "v", " ", "p", "r", "e", "p", "r", "i", "n", "t", " ", "a", "r", "X", "i", "v", ":">>
ErrMissing == <<"e", "r", "r", "o", "r", ":", " ", "U7F3A", "U5931", "U5B57", "U6BB5", ":", " ">>
WarnPrefix == <<"w", "a", "r", "n", "i", "n", "g", ":", " ">>
FormatErr == <<"U683C", "U5F0F", "U9519", "U8BEF">>
Ok == <<"o", "k">>
WarnMisc == <<"w", "a", "r", "n", "i", "n", "g", ":", " ", "m", "i", "s", "c", "U6539", "w", "w", "w">>
ErrUndefined == <<"e", "r", "r", "o", "r", ":", " ", "U672A", "U5B9A", "U4E49", "b", "i", "b", "t", "e", "x", "U7C7B", "U578B">>
CommaSpace == <<",", " ">>
error == <<"e", "r", "r", "o", "r">>
warning == <<"w", "a", "r", "n", "i", "n", "g">>
HdrOriginal == <<"O", "r", "i", "g", "i", "n", "a", "l">>
HdrUpdated == <<"U", "p", "d", "a", "t", "e", "d">>
HdrRecord == <<"R", "e", "c", "o", "r", "d">>
\* type tags and field values of the input entries
tagArticle == <<"A", "r", "t", "i", "c", "l", "e">>
tagARTICLE == <<"A", "R", "T", "I", "C", "L", "E">>
tagInProc == <<"I", "n", "P", "r", "o", "c", "e", "e", "d", "i", "n", "g", "s">>
tagMisc == <<"M", "i", "s", "c">>
tagWWW == <<"W", "W", "W">>
tagBook == <<"B", "o", "o", "k">>
tagTech == <<"T", "e", "c", "h", "R", "e", "p", "o", "r", "t">>
tagPhd == <<"p", "h", "d", "t", "h", "e", "s", "i", "s">>
vPlain == <<"T">>
vParen == <<"T", "(", "x", ")">>
vParenNl == <<"T", "(", "x", ")", "\n">>
vArxivOk == <<"a", "r", "X", "i", "v", " ", "p", "r", "e", "p", "r", "i", "n", "t", " ", "a", "r", "X", "i", "v", ":", "1", "2", ".", "3">>
vArxivSp == <<"a", "r", "X", "i", "v", " ", "p", "r", "e", "p", "r", "i", "n", "t", " ", "a", "r", "X", "i", "v", ":", " ", "1", ".", "2", "\n">>
vArxivUp == <<"A", "R", "X", "I", "V", " ", "1">>
vNature == <<"N", "a", "t", "u", "r", "e">>
vPages == <<"1", "-", "2", "0">>
vPagesParen == <<"1", "-", "2", "0", "(", "2", ")">>
vKey == <<"k", "1">>
vOther == <<"v">>
vOld == <<"o", "l", "d">>
FieldChars ==
  [address |-> <<"a", "d", "d", "r", "e", "s", "s">>,
   author |-> <<"a", "u", "t", "h", "o", "r">>,
   booktitle |-> <<"b", "o", "o", "k", "t", "i", "t", "l", "e">>,
   edition |-> <<"e", "d", "i", "t", "i", "o", "n">>,
   institution |-> <<"i", "n", "s", "t", "i", "t", "u", "t", "i", "o", "n">>,
   journal |-> <<"j", "o", "u", "r", "n", "a", "l">>,
   number |-> <<"n", "u", "m", "b", "e", "r">>,
   pages |-> <<"p", "a", "g", "e", "s">>,
   publisher |-> <<"p", "u", "b", "l", "i", "s", "h", "e", "r">>,
   title |-> <<"t", "i", "t", "l", "e">>,
   url |-> <<"u", "r", "l">>,
   volume |-> <<"v", "o", "l", "u", "m", "e">>,
   year |-> <<"y", "e", "a", "r">>]

\* the field names, in the order sorted() gives them
FieldNames ==
    <<"address", "author", "booktitle", "edition", "institution", "journal",
      "number", "pages", "publisher", "title", "url", "volume", "year">>
Fields == {FieldNames[k] : k \in 1..Len(FieldNames)}

\* ---------------------------------------------------------------------------
\* Python built-ins the script uses

UpperToLower ==
    [A |-> "a", B |-> "b", C |-> "c", D |-> "d", E |-> "e", F |-> "f",
     G |-> "g", H |-> "h", I |-> "i", J |-> "j", K |-> "k", L |-> "l",
     M |-> "m", N |-> "n", O |-> "o", P |-> "p", Q |-> "q", R |-> "r",
     S |-> "s", T |-> "t", U |-> "u", V |-> "v", W |-> "w", X |-> "x",
     Y |-> "y", Z |-> "z"]

\* str.lower()
Lower(s) ==
    [k \in 1..Len(s) |->
        IF s[k] \in DOMAIN UpperToLower THEN UpperToLower[s[k]] ELSE s[k]]

\* sub in s
Contains(sub, s) ==
    \E k \in 0..(Len(s) - Len(sub)) : SubSeq(s, k + 1, k + Len(sub)) = sub

\* s.startswith(prefix)
StartsWith(s, prefix) ==
    Len(prefix) <= Len(s) /\ SubSeq(s, 1, Len(prefix)) = prefix

\* s.rstrip(chars)
RECURSIVE RStrip(_, _)
RStrip(s, chars) ==
    IF s # <<>> /\ s[Len(s)] \in chars
    THEN RStrip(SubSeq(s, 1, Len(s) - 1), chars)
    ELSE s

\* ''.join(parts)
RECURSIVE Join(_)
Join(parts) ==
    IF parts = <<>> THEN <<>> ELSE Head(parts) \o Join(Tail(parts))

\* sep.join(parts)
RECURSIVE JoinSep(_, _)
JoinSep(sep, parts) ==
    IF parts = <<>> THEN <<>>
    ELSE IF Len(parts) = 1 THEN Head(parts)
    ELSE Head(parts) \o sep \o JoinSep(sep, Tail(parts))

\* the width of the format specification {key:<10}
JustWidth == 10

\* format(s, '<10'): s left-justified in a field of JustWidth characters
RECURSIVE LJust(_, _)
LJust(s, width) ==
    IF Len(s) >= width THEN s ELSE LJust(s \o <<" ">>, width)

\* dict.get(key, default)
Get(d, key, default) == IF key \in DOMAIN d THEN d[key] ELSE default

\* not d.get(key): the key is absent or its value is the empty string
Falsy(d, key) == key \notin DOMAIN d \/ d[key] = <<>>

\* ---------------------------------------------------------------------------
\* The two regular expressions, as re.match applies them

ArxivPattern == "^arXiv preprint arXiv:\\s*\\d+\\.\\d+$"
ParenPattern == ".*\\([^)]*\\)$"
None == "None"

Digits == {"0", "1", "2", "3", "4", "5", "6", "7", "8", "9"}
Spaces == {" ", "\t", "\n", "\r", "\f"}

\* first position from k on whose character is not in class (Len(s)+1 if none)
RECURSIVE Skip(_, _, _)
Skip(s, k, class) ==
    IF k <= Len(s) /\ s[k] \in class THEN Skip(s, k + 1, class) ELSE k

\* $ at position k: the end of the string, or just before a final newline
AtDollar(s, k) == k = Len(s) + 1 \/ (k = Len(s) /\ s[k] = "\n")

re_match(pattern, s) ==
    IF pattern = ArxivPattern
    THEN LET d1 == Skip(s, Len(ArxivLiteral) + 1, Spaces)
             dot == Skip(s, d1, Digits)
             d2 == dot + 1
             end == Skip(s, d2, Digits)
         IN  /\ StartsWith(s, ArxivLiteral)
             /\ dot > d1
             /\ dot <= Len(s) /\ s[dot] = "."
             /\ end > d2
             /\ AtDollar(s, end)
    ELSE \E open \in 1..Len(s), close \in 1..Len(s) :
             /\ open < close
             /\ \A k \in 1..(open - 1) : s[k] # "\n"
             /\ s[open] = "("
             /\ \A k \in (open + 1)..(close - 1) : s[k] # ")"
             /\ s[close] = ")"
             /\ AtDollar(s, close + 1)

\* ---------------------------------------------------------------------------
\* print_entry_info

\* f"\t{key:<10} = {{{value}}},\n"
FieldLine(key, value) ==
    <<"\t">> \o LJust(FieldChars[key], JustWidth) \o <<" ", "=", " ", "{">>
        \o value \o <<"}", ",", "\n">>

\* f"@{entry_type}{{{entry.get('ID', 'unnamed')},\n"
HeaderLine(entry_type, e) ==
    <<"@">> \o entry_type \o <<"{">> \o Get(e, "ID", unnamed) \o <<",", "\n">>

\* the keys of the entry other than ENTRYTYPE and ID, sorted
SortedKeys(e) == SelectSeq(FieldNames, LAMBDA key : key \in DOMAIN e)

original_entry(e) ==
    LET keys == SortedKeys(e)
        lines == [k \in 1..Len(keys) |-> FieldLine(keys[k], e[keys[k]])]
    IN  RStrip(HeaderLine(e["ENTRYTYPE"], e) \o Join(lines), {",", "\n"})
            \o <<"\n", "}">>

bib_dict(e, required_fields) ==
    [field \in {required_fields[k] : k \in 1..Len(required_fields)} |->
        Get(e, field, null)]

\* missing_fields with `field not in entry` for `not entry.get(field)`
missing_fields_absent_only(e, required_fields) ==
    SelectSeq(required_fields, LAMBDA field : field \notin DOMAIN e)

missing_fields(e, required_fields) ==
    SelectSeq(required_fields, LAMBDA field : Falsy(e, field))

\* the nested function generate_bibtex; its two nonlocal variables are the
\* fields of the result
generate_bibtex(e, entry_type, required_fields, format_check) ==
    LET dict == bib_dict(e, required_fields)
        missing == missing_fields(e, required_fields)
        lines == [k \in 1..Len(required_fields) |->
                    FieldLine(required_fields[k], dict[required_fields[k]])]
        update_entry ==
            RStrip(HeaderLine(entry_type, e) \o Join(lines), {",", "\n"})
                \o <<"\n", "}">>
        record ==
            IF missing # <<>>
            THEN ErrMissing
                   \o JoinSep(CommaSpace,
                        [k \in 1..Len(missing) |-> FieldChars[missing[k]]])
            ELSE IF format_check # None
                    /\ ~re_match(format_check, dict[required_fields[1]])
            THEN WarnPrefix \o FieldChars[required_fields[1]] \o FormatErr
            ELSE Ok
    IN  [record |-> record, update_entry |-> update_entry]

\* is_arxiv without .lower()
is_arxiv_case_sensitive(e) ==
    "journal" \in DOMAIN e /\ Contains(arxiv, e["journal"])

\* 'journal' in entry and 'arxiv' in entry['journal'].lower()
is_arxiv(e) == "journal" \in DOMAIN e /\ Contains(arxiv, Lower(e["journal"]))

\* rewrite_misc without the demotion
rewrite_misc_kept(record) == record

\* if record == "ok": record = "warning: misc改www"
rewrite_misc(record) == IF record = Ok THEN WarnMisc ELSE record

NoCall == [entry_type |-> <<>>, required_fields |-> <<>>, format_check |-> None]

\* the if/elif chain of print_entry_info: the arguments of the call of
\* generate_bibtex it makes, NoCall when it makes none
dispatch(e) ==
    LET type == Lower(e["ENTRYTYPE"])
    IN  IF type = article
        THEN IF is_arxiv(e)
             THEN [entry_type |-> article,
                   required_fields |-> <<"title", "author", "year", "journal">>,
                   format_check |-> ArxivPattern]
             ELSE [entry_type |-> article,
                   required_fields |-> <<"title", "author", "journal", "volume",
                                         "number", "pages", "year">>,
                   format_check |-> ParenPattern]
        ELSE IF type = inproceedings
        THEN [entry_type |-> inproceedings,
              required_fields |-> <<"title", "author", "booktitle", "year",
                                    "pages">>,
              format_check |-> ParenPattern]
        ELSE IF type \in {misc, www}
        THEN [entry_type |-> www,
              required_fields |-> <<"author", "year", "title", "url">>,
              format_check |-> None]
        ELSE IF type = book
        THEN [entry_type |-> book,
              required_fields |-> <<"author", "title", "publisher", "year",
                                    "address", "edition">>,
              format_check |-> None]
        ELSE IF type = techreport
        THEN [entry_type |-> techreport,
              required_fields |-> <<"author", "title", "institution", "year",
                                    "address">>,
              format_check |-> None]
        ELSE NoCall

print_entry_info(e) ==
    LET args == dispatch(e)
        g == generate_bibtex(e, args.entry_type, args.required_fields,
                             args.format_check)
    IN  IF args = NoCall
        THEN [record |-> ErrUndefined, update_entry |-> <<>>,
              original_entry |-> original_entry(e)]
        ELSE [record |-> IF Lower(e["ENTRYTYPE"]) \in {misc, www}
                         THEN rewrite_misc(g.record) ELSE g.record,
              update_entry |-> g.update_entry,
              original_entry |-> original_entry(e)]

\* ---------------------------------------------------------------------------
\* Input entries

TypeTags ==
    {article, tagArticle, tagARTICLE, inproceedings, tagInProc, misc, tagMisc,
     www, tagWWW, book, tagBook, techreport, tagTech, tagPhd}

\* at most one field left out of an entry, at most one given an empty value
FieldChoices == {{}} \cup {{f} : f \in Fields}

\* an entry holding every field but those of absent; the fields of empty are
\* empty strings, the other fields but title, journal and pages hold "v"
MakeEntry(tag, hasID, title, journal, pages, absent, empty) ==
    [key \in {"ENTRYTYPE"} \cup (IF hasID THEN {"ID"} ELSE {})
                 \cup (Fields \ absent) |->
        IF key = "ENTRYTYPE" THEN tag
        ELSE IF key = "ID" THEN vKey
        ELSE IF key \in empty THEN <<>>
        ELSE IF key = "title" THEN title
        ELSE IF key = "journal" THEN journal
        ELSE IF key = "pages" THEN pages
        ELSE vOther]

EvalEntries ==
    {MakeEntry(tag, hasID, title, journal, pages, absent, empty) :
        tag \in TypeTags, hasID \in BOOLEAN,
        title \in {vPlain, vParen, vParenNl, vArxivOk, vArxivSp},
        journal \in {vNature, vArxivOk, vArxivUp},
        pages \in {vPages, vPagesParen},
        absent \in FieldChoices, empty \in FieldChoices}

\* the entries of the batch runs
BatchEntries ==
    {MakeEntry(inproceedings, TRUE, vParen, vNature, vPages, {}, {}),
     MakeEntry(tagMisc, TRUE, vPlain, vNature, vPages, {}, {}),
     MakeEntry(article, TRUE, vPlain, vArxivOk, vPages, {}, {}),
     MakeEntry(book, FALSE, vPlain, vNature, vPages, {"edition"}, {"year"}),
     MakeEntry(tagPhd, TRUE, vPlain, vNature, vPages, {}, {})}

RECURSIVE SeqsUpTo(_, _)
SeqsUpTo(S, n) ==
    IF n = 0 THEN {<<>>}
    ELSE LET shorter == SeqsUpTo(S, n - 1)
         IN  shorter \cup {Append(s, x) : s \in shorter, x \in S}

\* ---------------------------------------------------------------------------
\* parse_bib_file

\* the file bib.ref: missing, one the parser raises on, or one the parser
\* turns into a list of entries
InputFiles ==
    {[kind |-> "missing", entries |-> <<>>],
     [kind |-> "unparsable", entries |-> <<>>]}
    \cup {[kind |-> "parsed", entries |-> es] :
            es \in SeqsUpTo(BatchEntries, MaxEntries)}

\* a printed line: the message and the value formatted into it
Line(msg, n, text) == [msg |-> msg, n |-> n, text |-> text]

parse_bib_file(file) ==
    IF file.kind = "missing"
    THEN [entries |-> <<>>, printed |-> <<Line("file not found", 0, <<>>)>>]
    ELSE IF file.kind = "unparsable"
    THEN [entries |-> <<>>, printed |-> <<Line("parse error", 0, <<>>)>>]
    ELSE [entries |-> file.entries, printed |-> <<>>]

\* ---------------------------------------------------------------------------
\* save_to_excel

NoXlsx == [exists |-> FALSE, rows |-> <<>>, widths |-> <<>>]

red_fill == "FFCDD2"
yellow_fill == "FFF9C4"
no_fill == "none"

HeaderRow == [values |-> <<HdrOriginal, HdrUpdated, HdrRecord>>, fill |-> no_fill]

\* Workbook(); ws.append(['Original', 'Updated', 'Record'])
NewWorkbook == [exists |-> TRUE, rows |-> <<HeaderRow>>, widths |-> <<>>]

MaxWidth == 100

SetMax(S) == CHOOSE m \in S : \A n \in S : n <= m

\* min(max(len(str(cell.value)) for cell in col if cell.value) + 2, 100)
adjusted_width(rows, col) ==
    LET max_length ==
            SetMax({Len(rows[k].values[col]) :
                      k \in {r \in 1..Len(rows) : rows[r].values[col] # <<>>}})
    IN  IF max_length + 2 < MaxWidth THEN max_length + 2 ELSE MaxWidth

\* save_to_excel that never loads the existing workbook
save_to_excel_fresh(file, original, updated, record) ==
    LET fill == IF StartsWith(record, error) THEN red_fill
                ELSE IF StartsWith(record, warning) THEN yellow_fill
                ELSE no_fill
        rows == Append(NewWorkbook.rows,
                       [values |-> <<original, updated, record>>, fill |-> fill])
    IN  [exists |-> TRUE, rows |-> rows,
         widths |-> [col \in 1..3 |-> adjusted_width(rows, col)]]

save_to_excel(file, original, updated, record) ==
    LET wb == IF file.exists THEN file ELSE NewWorkbook
        fill == IF StartsWith(record, error) THEN red_fill
                ELSE IF StartsWith(record, warning) THEN yellow_fill
                ELSE no_fill
        rows == Append(wb.rows,
                       [values |-> <<original, updated, record>>, fill |-> fill])
    IN  [exists |-> TRUE, rows |-> rows,
         widths |-> [col \in 1..3 |-> adjusted_width(rows, col)]]

\* main without the removal of the old records
remove_records_kept(file) == file

\* if os.path.exists('bibtex_records.xlsx'): os.remove('bibtex_records.xlsx')
remove_records(file) == NoXlsx

\* ---------------------------------------------------------------------------
\* save_all_updates

NoBib == [exists |-> FALSE, content |-> <<>>]

\* written with `if update_entry and not record.startswith("error")`
RECURSIVE written_skip_errors(_)
written_skip_errors(es) ==
    IF es = <<>> THEN <<>>
    ELSE LET r == print_entry_info(Head(es))
         IN  (IF r.update_entry # <<>> /\ ~StartsWith(r.record, error)
              THEN r.update_entry \o <<"\n", "\n">> ELSE <<>>)
                 \o written_skip_errors(Tail(es))

\* what the loop of save_all_updates writes to the file
RECURSIVE written(_)
written(es) ==
    IF es = <<>> THEN <<>>
    ELSE LET update_entry == print_entry_info(Head(es)).update_entry
         IN  (IF update_entry # <<>>
              THEN update_entry \o <<"\n", "\n">> ELSE <<>>)
                 \o written(Tail(es))

\* save_all_updates with open(output_file, 'a') for open(output_file, 'w')
save_all_updates_append(es, output_file) ==
    [exists |-> TRUE, content |-> output_file.content \o written(es)]

\* open(output_file, 'w') drops what the file held
save_all_updates(es, output_file) == [exists |-> TRUE, content |-> written(es)]

\* ---------------------------------------------------------------------------
\* The files a run can find, left by an earlier run

OldEntries == <<MakeEntry(techreport, TRUE, vPlain, vNature, vPages, {}, {})>>

OldXlsx ==
    LET r == print_entry_info(OldEntries[1])
    IN  save_to_excel(NoXlsx, r.original_entry, r.update_entry, r.record)

OldBib == save_all_updates(OldEntries, NoBib)

NoRet == [record |-> <<>>, update_entry |-> <<>>, original_entry |-> <<>>]
NoEntry == [ENTRYTYPE |-> <<>>]
NoFiles == [xlsx |-> NoXlsx, bibout |-> NoBib]

\* ---------------------------------------------------------------------------
\* main, run up to MaxRuns times on the same bib.ref

Init ==
    /\ entry = NoEntry /\ call = NoCall /\ ret = NoRet /\ evalpc = "idle"
    /\ bibref \in InputFiles
    /\ xlsx \in {NoXlsx, OldXlsx}
    /\ bibout \in {NoBib, OldBib}
    /\ stdout = <<>>
    /\ entries = <<>> /\ i = 0 /\ pc = "start"
    /\ runs = 1
    /\ atStart = [xlsx |-> xlsx, bibout |-> bibout]
    /\ atEnd = NoFiles

\* lines 180-187, 198-199: remove the old records, parse, branch on entries
MainStart ==
    /\ pc = "start"
    /\ LET parsed == parse_bib_file(bibref)
       IN  /\ xlsx' = remove_records(xlsx)
           /\ entries' = parsed.entries
           /\ IF parsed.entries # <<>>
              THEN /\ stdout' = stdout \o parsed.printed
                        \o <<Line("found", Len(parsed.entries), <<>>)>>
                   /\ pc' = "loop" /\ i' = 1
              ELSE /\ stdout' = stdout \o parsed.printed
                        \o <<Line("no records found", 0, <<>>)>>
                   /\ pc' = "done" /\ i' = 0
    /\ UNCHANGED <<bibref, bibout, runs, atStart, atEnd, evalvars>>

\* lines 188-194: one iteration of the loop over the entries
MainLoop ==
    /\ pc = "loop" /\ i <= Len(entries)
    /\ LET r == print_entry_info(entries[i])
       IN  /\ stdout' = stdout
                \o (IF r.record # <<>>
                    THEN <<Line("record", 0, r.record)>> ELSE <<>>)
                \o (IF r.update_entry # <<>>
                    THEN <<Line("updated", 0, r.update_entry)>> ELSE <<>>)
           /\ xlsx' = save_to_excel(xlsx, r.original_entry, r.update_entry,
                                    r.record)
    /\ i' = i + 1
    /\ pc' = IF i = Len(entries) THEN "save" ELSE "loop"
    /\ UNCHANGED <<bibref, bibout, entries, runs, atStart, atEnd, evalvars>>

\* lines 196-197
MainSaveAll ==
    /\ pc = "save"
    /\ bibout' = save_all_updates(entries, bibout)
    /\ stdout' = stdout \o <<Line("saved", 0, <<>>)>>
    /\ pc' = "done"
    /\ UNCHANGED <<bibref, xlsx, entries, i, runs, atStart, atEnd, evalvars>>

\* the script is started again, bib.ref unchanged
Rerun ==
    /\ pc = "done" /\ runs < MaxRuns
    /\ runs' = runs + 1
    /\ atEnd' = [xlsx |-> xlsx, bibout |-> bibout]
    /\ atStart' = [xlsx |-> xlsx, bibout |-> bibout]
    /\ entries' = <<>> /\ i' = 0 /\ pc' = "start"
    /\ UNCHANGED <<bibref, xlsx, bibout, stdout, evalvars>>

Next == MainStart \/ MainLoop \/ MainSaveAll \/ Rerun

Spec == Init /\ [][Next]_vars

\* ---------------------------------------------------------------------------
\* One call of print_entry_info on an entry of EvalEntries

InitEval ==
    /\ entry \in EvalEntries /\ call = NoCall /\ ret = NoRet
    /\ evalpc = "call"
    /\ bibref = [kind |-> "missing", entries |-> <<>>]
    /\ xlsx = NoXlsx /\ bibout = NoBib /\ stdout = <<>>
    /\ entries = <<>> /\ i = 0 /\ pc = "idle" /\ runs = 0
    /\ atStart = NoFiles /\ atEnd = NoFiles

PrintEntryInfo ==
    /\ evalpc = "call"
    /\ call' = dispatch(entry)
    /\ ret' = print_entry_info(entry)
    /\ evalpc' = "return"
    /\ UNCHANGED <<entry, mainvars>>

NextEval == PrintEntryInfo

SpecEval == InitEval /\ [][NextEval]_vars

\* ---------------------------------------------------------------------------
\* Properties of print_entry_info (specification SpecEval)

Returned == evalpc = "return"
TypeOf(e) == Lower(e["ENTRYTYPE"])
KnownTypes == {article, inproceedings, misc, www, book, techreport}

\* the field is absent from the entry or present with an empty value
Missing(e, f) == f \notin DOMAIN e \/ e[f] = <<>>
AllPresent(e, fields) == \A k \in 1..Len(fields) : ~Missing(e, fields[k])
MissingOf(e, fields) == SelectSeq(fields, LAMBDA f : Missing(e, f))
Names(fields) ==
    JoinSep(CommaSpace, [k \in 1..Len(fields) |-> FieldChars[fields[k]]])

ShortForm == <<"title", "author", "year", "journal">>
FullForm == <<"title", "author", "journal", "volume", "number", "pages", "year">>
InproceedingsForm == <<"title", "author", "booktitle", "year", "pages">>
WwwForm == <<"author", "year", "title", "url">>

\* C1: a record of a known type with a required field of the selected rule
\* absent or empty gets the missing-fields error naming exactly those fields
\* in the rule's order, whatever the format constraint would say.
C1_MissingFieldsError ==
    (Returned /\ TypeOf(entry) \in KnownTypes
        /\ ~AllPresent(entry, call.required_fields))
    => ret.record = ErrMissing \o Names(MissingOf(entry, call.required_fields))

\* an inproceedings record whose title fails the pattern, with year empty
\* and pages absent
C1_Witness ==
    /\ Returned /\ entry["ENTRYTYPE"] = inproceedings
    /\ "title" \in DOMAIN entry /\ entry["title"] = vPlain
    /\ "year" \in DOMAIN entry /\ entry["year"] = <<>>
    /\ "pages" \notin DOMAIN entry
    /\ ret.record = ErrMissing \o Names(<<"year", "pages">>)

\* the value the claims name as format-constrained satisfies the pattern
FormatHolds(e, rule) ==
    IF rule.format_check = ArxivPattern THEN re_match(ArxivPattern, e["journal"])
    ELSE IF rule.format_check = ParenPattern THEN re_match(ParenPattern, e["pages"])
    ELSE TRUE

\* C2: a record of type article, inproceedings, book or techreport with all
\* required fields present and non-empty, whose journal (arXiv form) or pages
\* (full article form, inproceedings) satisfies the rule's pattern, gets ok.
C2_ValidIsOk ==
    (Returned /\ TypeOf(entry) \in {article, inproceedings, book, techreport}
        /\ AllPresent(entry, call.required_fields)
        /\ FormatHolds(entry, call))
    => ret.record = Ok

\* C3: an inproceedings record with its five required fields present whose
\* pages value does not end with a parenthesized group gets the warning that
\* names pages.
C3_PagesWarning ==
    (Returned /\ TypeOf(entry) = inproceedings
        /\ AllPresent(entry, InproceedingsForm)
        /\ ~re_match(ParenPattern, entry["pages"]))
    => ret.record = WarnPrefix \o FieldChars["pages"] \o FormatErr

\* C4: a misc or www record, in any letter case, with author, year, title and
\* url present and non-empty gets the warning "misc rewritten to www", and
\* its canonical record has the type tag www.
C4_MiscDemoted ==
    (Returned /\ TypeOf(entry) \in {misc, www} /\ AllPresent(entry, WwwForm))
    => /\ ret.record = WarnMisc
       /\ StartsWith(ret.update_entry, <<"@">> \o www \o <<"{">>)

C4_Witness ==
    /\ Returned /\ entry["ENTRYTYPE"] = tagMisc /\ AllPresent(entry, WwwForm)
    /\ ret.record = WarnMisc

\* the canonical rendering the claims describe: the header, then a line per
\* field carrying value(field), the last without its separator, then "}"
Rendering(type, e, fields, value(_)) ==
    LET lines == [k \in 1..Len(fields) |-> FieldLine(fields[k], value(fields[k]))]
        body == HeaderLine(type, e) \o Join(lines)
    IN  SubSeq(body, 1, Len(body) - 2) \o <<"\n", "}">>

\* C5: for a record of a known type the canonical rendering has one line per
\* required field of the selected rule, in the rule's order, carrying the
\* record's value, or null when the field is absent or empty.
C5_NullForMissing ==
    (Returned /\ TypeOf(entry) \in KnownTypes)
    => ret.update_entry =
         Rendering(call.entry_type, entry, call.required_fields,
                   LAMBDA f : IF Missing(entry, f) THEN null ELSE entry[f])

\* the string holds "arxiv" in some letter case
HoldsArxiv(s) ==
    \E k \in 0..(Len(s) - Len(arxiv)) :
        \A j \in 1..Len(arxiv) :
            \/ s[k + j] = arxiv[j]
            \/ s[k + j] \in DOMAIN UpperToLower /\ UpperToLower[s[k + j]] = arxiv[j]

\* C10: an article record, in any letter case, whose journal holds "arxiv" in
\* any letter case gets the 4-field short form; one with no journal or with a
\* journal not holding it gets the 7-field full form.
C10_ArticleForm ==
    (Returned /\ TypeOf(entry) = article)
    => call.required_fields =
         IF "journal" \in DOMAIN entry /\ HoldsArxiv(entry["journal"])
         THEN ShortForm ELSE FullForm

C10_Witness ==
    /\ Returned /\ entry["ENTRYTYPE"] = tagARTICLE
    /\ "journal" \in DOMAIN entry /\ entry["journal"] = vArxivUp
    /\ call.required_fields = ShortForm

\* ---------------------------------------------------------------------------
\* Properties of the runs of main (specification Spec)

Done == pc = "done"
Known(e) == TypeOf(e) \in KnownTypes
RowOf(e) ==
    LET r == print_entry_info(e)
    IN  <<r.original_entry, r.update_entry, r.record>>

\* C6: after a run over N >= 1 records, whatever the log held before, the log
\* holds the header row and then exactly N rows, row k being the (original,
\* canonical, outcome) of the k-th record, error records included.
C6_LogRows ==
    (Done /\ Len(entries) >= 1)
    => /\ xlsx.exists
       /\ Len(xlsx.rows) = Len(entries) + 1
       /\ xlsx.rows[1] = HeaderRow
       /\ \A k \in 1..Len(entries) : xlsx.rows[k + 1].values = RowOf(entries[k])

\* a log existed before; the first of two records is of an unknown type
C6_Witness ==
    /\ Done /\ atStart.xlsx.exists /\ Len(entries) = 2
    /\ ~Known(entries[1])
    /\ xlsx.rows[2].values[3] = ErrUndefined
    /\ xlsx.rows[3].values = RowOf(entries[2])

\* the number of renderings in a text: each ends with "\n}" and is followed
\* by a blank line
NumRenderings(text) ==
    Cardinality({k \in 1..(Len(text) - 3) :
                   SubSeq(text, k, k + 3) = <<"\n", "}", "\n", "\n">>})

\* C7 as stated: after a run over N >= 1 records the output holds exactly N
\* renderings, one for every record whatever its outcome.
C7_RenderingPerRecord ==
    (Done /\ Len(entries) >= 1)
    => bibout.exists /\ NumRenderings(bibout.content) = Len(entries)

\* C7, amended: after a run over N >= 1 records the output holds, in input
\* order and each followed by a blank line, the canonical rendering of every
\* record of a known type, missing-fields errors included, and nothing for a
\* record of an unknown type.
C7_RenderingPerKnownRecord ==
    (Done /\ Len(entries) >= 1)
    => /\ bibout.exists
       /\ bibout.content =
            Join([k \in 1..Len(entries) |->
                    IF Known(entries[k])
                    THEN print_entry_info(entries[k]).update_entry \o <<"\n", "\n">>
                    ELSE <<>>])
       /\ NumRenderings(bibout.content) =
            Cardinality({k \in 1..Len(entries) : Known(entries[k])})

\* an unknown-type record, then a record with a missing-fields error
C7_Witness ==
    /\ Done /\ Len(entries) = 2
    /\ ~Known(entries[1])
    /\ Known(entries[2]) /\ StartsWith(RowOf(entries[2])[3], ErrMissing)
    /\ NumRenderings(bibout.content) = 1

ReportedNoRecords ==
    stdout # <<>> /\ stdout[Len(stdout)].msg = "no records found"

\* C8 as stated: when the input yields no records the run reports it and
\* leaves both files as they were before the run.
C8_BothFilesKept ==
    (Done /\ entries = <<>>)
    => /\ ReportedNoRecords
       /\ bibout = atStart.bibout
       /\ xlsx = atStart.xlsx

\* C8, amended: when the input yields no records the run reports it, leaves
\* the output file as it was before the run, and leaves no log file: a log of
\* a prior run is deleted and none is created.
C8_OutputKeptLogRemoved ==
    (Done /\ entries = <<>>)
    => /\ ReportedNoRecords
       /\ bibout = atStart.bibout
       /\ xlsx = NoXlsx

\* a parse failure with both files present from a prior run
C8_Witness ==
    /\ Done /\ entries = <<>> /\ bibref.kind = "unparsable"
    /\ atStart.xlsx.exists /\ atStart.bibout.exists
    /\ ~xlsx.exists /\ bibout = OldBib

\* C9: at the end of a run that follows a run on the same input, the output
\* file and the log (rows, order, count) are what they were at the end of the
\* run before.
C9_RerunSameFiles ==
    (Done /\ runs >= 2) => (xlsx = atEnd.xlsx /\ bibout = atEnd.bibout)

\* the second run over two records has ended
C9_Witness ==
    /\ Done /\ runs = 2 /\ Len(entries) = 2
    /\ Len(xlsx.rows) = 3 /\ Len(atEnd.xlsx.rows) = 3
    /\ NumRenderings(bibout.content) >= 1
====
